---- MODULE Spec2Model ----
(***************************************************************************)
(* A model of the iCal anonymizer (convertiCal-chatgpt.py): the function   *)
(* anonymize_calendar and the helpers it calls, as a state machine whose   *)
(* steps are the statements of its two branches (normal mode: the          *)
(* per-event loop and the deferred removal; merge mode: interval           *)
(* collection, sort, merge walk, replacement and synthesis).               *)
(*                                                                         *)
(* Time.  A calendar date is its day number since the epoch.  A datetime   *)
(* is its wall-clock reading in seconds since the epoch together with the  *)
(* UTC offset of its tzinfo (aware) or no tzinfo (naive); the instant it   *)
(* denotes is wall - offset.  Asia/Tokyo has no daylight saving time, so   *)
(* its offset is the fixed +09:00.  relativedelta(years=1) is modelled as  *)
(* 365 days (a span without leap day).                                     *)
(*                                                                         *)
(* Values follow the data model of the calendar: DTSTART, DTEND,           *)
(* RECURRENCE-ID and DTSTAMP are absent, a date, or a datetime.            *)
(***************************************************************************)
EXTENDS Integers, Sequences, FiniteSets, TLC

VARIABLES calprops, vtimezones, events, clear_location, merge_adjacent_stays,
          now_jst, pc, i, to_remove, intervals, merged, src

vars == <<calprops, vtimezones, events, clear_location, merge_adjacent_stays,
          now_jst, pc, i, to_remove, intervals, merged, src>>

(***************************************************************************)
(* Bounds of the model.                                                    *)
(***************************************************************************)
\* the longest calendar of normal mode drawn from SmallPool
MaxEvents == 2
\* the longest calendar of merge mode drawn from StayPool
MaxStays == 3
\* the day number around which the inputs and the cutoff are placed
BaseDay == 1000

(***************************************************************************)
(* Calendar arithmetic.                                                    *)
(***************************************************************************)
DaySecs == 24 * 60 * 60
JstOffset == 9 * 60 * 60
YearSecs == 365 * DaySecs
TokyoId == "Asia/Tokyo"

(***************************************************************************)
(* Property values.  k is "absent", "date" or "dt"; v is the day number of *)
(* a date or the wall-clock seconds of a datetime; aware/off are the       *)
(* tzinfo; tzid is the TZID parameter ("" when none); wrapped says the     *)
(* value sits in an icalendar property object (with .dt and .params)       *)
(* rather than being a plain date stored in the component.                 *)
(***************************************************************************)
Absent == [k |-> "absent", v |-> 0, aware |-> FALSE, off |-> 0, tzid |-> "", wrapped |-> FALSE]
PyDate(d) == [k |-> "date", v |-> d, aware |-> FALSE, off |-> 0, tzid |-> "", wrapped |-> FALSE]
PyNaive(w) == [k |-> "dt", v |-> w, aware |-> FALSE, off |-> 0, tzid |-> "", wrapped |-> FALSE]
PyAware(w, o) == [k |-> "dt", v |-> w, aware |-> TRUE, off |-> o, tzid |-> "", wrapped |-> FALSE]
\* a parsed property: the value wrapped, with its TZID parameter
Prop(val, tzid) == [val EXCEPT !.wrapped = TRUE, !.tzid = tzid]
\* getattr(x, "dt", x): the plain value of a property or of a plain value
DtOf(x) == [x EXCEPT !.wrapped = FALSE, !.tzid = ""]
\* the instant an aware datetime denotes, in seconds since the epoch
Utc(x) == x.v - x.off
\* wall-clock seconds of hh:mm:ss on day d
At(d, hh, mm, ss) == d * DaySecs + hh * 3600 + mm * 60 + ss

NoStr == "<none>"
NoSeq == [has |-> FALSE, n |-> 0]

SENSITIVE_PROPS == <<"ORGANIZER", "ATTENDEE", "CONTACT", "URL", "COMMENT",
                     "RESOURCES", "GEO", "CATEGORIES", "RELATED-TO", "ATTACH">>
SensitiveSet == {SENSITIVE_PROPS[n] : n \in 1..Len(SENSITIVE_PROPS)}
MultiProps == SensitiveSet \cup {"LOCATION"}

summary_text == "Unavailable"
description_text == "Unavailable"

(***************************************************************************)
(* _norm_dt and make_anonymized_uid.  The identifier is modelled by the    *)
(* canonical list of parts the digest is taken of.                         *)
(***************************************************************************)
EmptyPart == [tag |-> "empty", n |-> 0, s |-> ""]
StrPart(s) == IF s = NoStr THEN EmptyPart ELSE [tag |-> "str", n |-> 0, s |-> s]

_norm_dt(value) ==
    IF value.k = "dt"
    THEN [tag |-> "Z", n |-> (IF value.aware THEN Utc(value) ELSE value.v), s |-> ""]
    ELSE IF value.k = "date"
    THEN [tag |-> "DATE", n |-> value.v, s |-> ""]
    ELSE [tag |-> "str", n |-> 0, s |-> "None"]

DtPart(x) == IF x.k = "absent" THEN EmptyPart ELSE _norm_dt(DtOf(x))

\* make_anonymized_uid hashing the creation timestamp as well
make_anonymized_uid_WithStamp(component) ==
    [kind |-> "anon", id |-> "",
     basis |-> << DtPart(component.DTSTART),
                  DtPart(component.DTEND),
                  StrPart(component.DURATION),
                  StrPart(component.RRULE),
                  StrPart(component.RDATE),
                  StrPart(component.EXDATE),
                  DtPart(component.RECURRENCE_ID),
                  DtPart(component.DTSTAMP) >>]

make_anonymized_uid(component) ==
    [kind |-> "anon", id |-> "",
     basis |-> << DtPart(component.DTSTART),
                  DtPart(component.DTEND),
                  StrPart(component.DURATION),
                  StrPart(component.RRULE),
                  StrPart(component.RDATE),
                  StrPart(component.EXDATE),
                  DtPart(component.RECURRENCE_ID) >>]

SrcUid(id) == [kind |-> "src", id |-> id, basis |-> << >>]

(***************************************************************************)
(* remove_all and _to_jst.                                                 *)
(***************************************************************************)
remove_all(component, prop) ==
    IF component.multi[prop] > 0
    THEN [component EXCEPT !.multi[prop] = 0]
    ELSE component

\* _to_jst reading a naive datetime as UTC and converting it
_to_jst_NaiveAsUtc(dt) ==
    IF dt.k = "dt"
    THEN IF ~dt.aware
         THEN [dt EXCEPT !.v = dt.v + JstOffset, !.aware = TRUE, !.off = JstOffset]
         ELSE [dt EXCEPT !.v = Utc(dt) + JstOffset, !.off = JstOffset]
    ELSE dt

\* _to_jst adding the Tokyo offset to the wall clock of an aware datetime
\* without first taking off the datetime's own offset
_to_jst_Shift(dt) ==
    IF dt.k = "dt"
    THEN IF ~dt.aware
         THEN [dt EXCEPT !.aware = TRUE, !.off = JstOffset]
         ELSE [dt EXCEPT !.v = dt.v + JstOffset, !.off = JstOffset]
    ELSE dt

_to_jst(dt) ==
    IF dt.k = "dt"
    THEN IF ~dt.aware
         THEN [dt EXCEPT !.aware = TRUE, !.off = JstOffset]
         ELSE [dt EXCEPT !.v = Utc(dt) + JstOffset, !.off = JstOffset]
    ELSE dt

\* datetime.date()
DateOfDt(dt) == dt.v \div DaySecs

\* datetime.astimezone(jst); every datetime that reaches it is aware (a naive
\* one would be read in the system's local zone, taken here as UTC)
astimezone_jst(dt) == [dt EXCEPT !.v = Utc(dt) + JstOffset, !.aware = TRUE, !.off = JstOffset]

(***************************************************************************)
(* Calendar metadata.                                                      *)
(***************************************************************************)
CalKeys == {"PRODID", "CALSCALE", "X-WR-CALNAME", "X-WR-CALDESC",
            "REFRESH-INTERVAL", "X-PUBLISHED-TTL", "X-WR-TIMEZONE"}
DroppedKeys == {"X-WR-CALNAME", "X-WR-CALDESC", "REFRESH-INTERVAL", "X-PUBLISHED-TTL"}

_normalize_calendar_metadata(cal) ==
    [key \in CalKeys |->
        IF key = "PRODID" THEN "-//anonymized-availability//ical-anonymizer//EN"
        ELSE IF key = "CALSCALE" THEN "GREGORIAN"
        ELSE IF key \in DroppedKeys THEN NoStr
        ELSE IF key = "X-WR-TIMEZONE" THEN TokyoId
        ELSE cal[key]]

_ensure_vtimezone_jst(tzs) ==
    IF \E n \in 1..Len(tzs) : tzs[n] = TokyoId
    THEN tzs
    ELSE Append(tzs, TokyoId)

\* now_jst - relativedelta(years=1)
cutoff == [now_jst EXCEPT !.v = @ - YearSecs]

(***************************************************************************)
(* The body of the per-event loop of normal mode, statement by statement.  *)
(***************************************************************************)
RECURSIVE RemoveSensitive(_, _)
RemoveSensitive(component, n) ==
    IF n > Len(SENSITIVE_PROPS)
    THEN component
    ELSE RemoveSensitive(remove_all(component, SENSITIVE_PROPS[n]), n + 1)

\* lines 304-312
ScrubEvent(component, clear) ==
    LET c1 == [component EXCEPT !.SUMMARY = summary_text,
                                !.DESCRIPTION = description_text]
        c2 == RemoveSensitive(c1, 1)
    IN  IF clear THEN remove_all(c2, "LOCATION") ELSE c2

\* one round of the loop of lines 315-332
NormalizeKey(prop) ==
    IF prop.k = "absent"
    THEN prop
    ELSE LET value == DtOf(prop)
             value_jst == _to_jst(value)
         IN  IF value_jst.k = "dt"
             THEN Prop(value_jst, TokyoId)
             ELSE value_jst

NormalizeTimestamps(component) ==
    [component EXCEPT !.DTSTART = NormalizeKey(@),
                      !.DTEND = NormalizeKey(@),
                      !.RECURRENCE_ID = NormalizeKey(@),
                      !.DTSTAMP = NormalizeKey(@)]

\* getattr(x, "dt", None) is a datetime
IsWrappedDatetime(x) == x.k = "dt" /\ x.wrapped

\* the comparison of line 344 taken as >=
IsOvernight_OrSameDay(ds_local, de_local) == DateOfDt(de_local) >= DateOfDt(ds_local)

\* line 344
IsOvernight(ds_local, de_local) == DateOfDt(de_local) > DateOfDt(ds_local)

\* lines 335-360
CollapseOvernight(component) ==
    IF IsWrappedDatetime(component.DTSTART) /\ IsWrappedDatetime(component.DTEND)
    THEN LET ds_local == astimezone_jst(DtOf(component.DTSTART))
             de_local == astimezone_jst(DtOf(component.DTEND))
         IN  IF IsOvernight(ds_local, de_local)
             THEN [component EXCEPT !.DTSTART = PyDate(DateOfDt(ds_local)),
                                    !.DTEND = PyDate(DateOfDt(de_local)),
                                    !.TRANSP = "OPAQUE"]
             ELSE component
    ELSE component

\* lines 363-366
ResetSequenceAndUid(component) ==
    LET c1 == IF component.SEQUENCE.has
              THEN [component EXCEPT !.SEQUENCE.n = 0]
              ELSE component
    IN  [c1 EXCEPT !.UID = make_anonymized_uid(c1)]

\* lines 303-366: the body of the loop for one event, up to the identifier
NormalizeEvent(component, clear) ==
    ResetSequenceAndUid(CollapseOvernight(NormalizeTimestamps(ScrubEvent(component, clear))))

\* _as_dt_jst taking a date as the start of its day
_as_dt_jst_Midnight(value) ==
    IF value.k = "dt"
    THEN _to_jst(value)
    ELSE IF value.k = "date"
    THEN PyAware(At(value.v, 0, 0, 0), JstOffset)
    ELSE now_jst

\* lines 294-301
_as_dt_jst(value) ==
    IF value.k = "dt"
    THEN _to_jst(value)
    ELSE IF value.k = "date"
    THEN PyAware(At(value.v, 23, 59, 59), JstOffset)
    ELSE now_jst

\* lines 369-377: end_dt is not None and end_dt < cutoff
IsOld(component) ==
    IF component.DTEND.k # "absent"
    THEN Utc(_as_dt_jst(DtOf(component.DTEND))) < Utc(cutoff)
    ELSE IF component.DTSTART.k # "absent"
    THEN Utc(_as_dt_jst(DtOf(component.DTSTART))) < Utc(cutoff)
    ELSE FALSE

\* list.remove(comp): drops the first element equal to comp, if any
RECURSIVE ListRemove(_, _)
ListRemove(list, comp) ==
    IF list = << >>
    THEN list
    ELSE IF Head(list) = comp
    THEN Tail(list)
    ELSE << Head(list) >> \o ListRemove(Tail(list), comp)

\* lines 381-385
RECURSIVE RemoveAllOld(_, _)
RemoveAllOld(list, comps) ==
    IF comps = << >>
    THEN list
    ELSE RemoveAllOld(ListRemove(list, Head(comps)), Tail(comps))

(***************************************************************************)
(* Merge mode.                                                             *)
(***************************************************************************)
NoDate == [ok |-> FALSE, d |-> 0]

\* lines 221-230
_date_or_none(x) ==
    IF x.k = "absent"
    THEN NoDate
    ELSE LET val == _to_jst(DtOf(x))
         IN  IF val.k = "dt"
             THEN [ok |-> TRUE, d |-> DateOfDt(val)]
             ELSE [ok |-> TRUE, d |-> val.v]

\* lines 233-240: the interval an event adds, if any
StayOf(component) ==
    LET ds_d == _date_or_none(component.DTSTART)
        de_d == _date_or_none(component.DTEND)
    IN  IF ~ds_d.ok \/ ~de_d.ok
        THEN << >>
        ELSE IF de_d.d > ds_d.d
        THEN << <<ds_d.d, de_d.d>> >>
        ELSE << >>

\* the sort key of line 244 compares (start, end) pairs
PairLeq(a, b) == a[1] < b[1] \/ (a[1] = b[1] /\ a[2] <= b[2])

RECURSIVE InsertSorted(_, _)
InsertSorted(list, x) ==
    IF list = << >>
    THEN << x >>
    ELSE IF PairLeq(Head(list), x)
    THEN << Head(list) >> \o InsertSorted(Tail(list), x)
    ELSE << x >> \o list

RECURSIVE SortIntervals(_)
SortIntervals(list) ==
    IF list = << >>
    THEN list
    ELSE InsertSorted(SortIntervals(SubSeq(list, 1, Len(list) - 1)), list[Len(list)])

\* MergeOne taking only a proper overlap as a continuation (s < le)
MergeOne_StrictOverlap(acc, iv) ==
    IF acc = << >>
    THEN << iv >>
    ELSE LET ls == acc[Len(acc)][1]
             le == acc[Len(acc)][2]
         IN  IF iv[1] < le
             THEN IF iv[2] > le
                  THEN [acc EXCEPT ![Len(acc)] = <<ls, iv[2]>>]
                  ELSE acc
             ELSE Append(acc, iv)

\* MergeOne always taking the continuing interval's end (no "if e > le")
MergeOne_LastEnd(acc, iv) ==
    IF acc = << >>
    THEN << iv >>
    ELSE LET ls == acc[Len(acc)][1]
             le == acc[Len(acc)][2]
         IN  IF iv[1] <= le
             THEN [acc EXCEPT ![Len(acc)] = <<ls, iv[2]>>]
             ELSE Append(acc, iv)

\* lines 247-255: one round of the merge walk
MergeOne(acc, iv) ==
    IF acc = << >>
    THEN << iv >>
    ELSE LET ls == acc[Len(acc)][1]
             le == acc[Len(acc)][2]
         IN  IF iv[1] <= le
             THEN IF iv[2] > le
                  THEN [acc EXCEPT ![Len(acc)] = <<ls, iv[2]>>]
                  ELSE acc
             ELSE Append(acc, iv)

\* line 275
EndInclusive(e) == PyAware(At(e, 0, 0, 0) - 1, JstOffset)

\* line 278
IsOldStay(iv) == Utc(EndInclusive(iv[2])) < Utc(cutoff)

BlankMulti == [p \in MultiProps |-> 0]

\* Event() of line 281
BlankEvent ==
    [UID |-> SrcUid(""), DTSTART |-> Absent, DTEND |-> Absent,
     DURATION |-> NoStr, RRULE |-> NoStr, RDATE |-> NoStr, EXDATE |-> NoStr,
     RECURRENCE_ID |-> Absent, DTSTAMP |-> Absent,
     SUMMARY |-> NoStr, DESCRIPTION |-> NoStr,
     multi |-> BlankMulti, SEQUENCE |-> NoSeq, TRANSP |-> NoStr]

\* SynthEvent taking the identifier before DTEND is added
SynthEvent_UidBeforeEnd(iv) ==
    LET ev == [BlankEvent EXCEPT !.SUMMARY = summary_text,
                                 !.DESCRIPTION = description_text,
                                 !.DTSTART = Prop(PyDate(iv[1]), ""),
                                 !.TRANSP = "OPAQUE"]
    IN  [ev EXCEPT !.UID = make_anonymized_uid(ev),
                   !.DTEND = Prop(PyDate(iv[2]), "")]

\* lines 281-289
SynthEvent(iv) ==
    LET ev == [BlankEvent EXCEPT !.SUMMARY = summary_text,
                                 !.DESCRIPTION = description_text,
                                 !.DTSTART = Prop(PyDate(iv[1]), ""),
                                 !.DTEND = Prop(PyDate(iv[2]), ""),
                                 !.TRANSP = "OPAQUE"]
    IN  [ev EXCEPT !.UID = make_anonymized_uid(ev)]

(***************************************************************************)
(* Inputs: the parsed calendars the runs start from.                       *)
(***************************************************************************)
B == BaseDay
Paris == "Europe/Paris"
NewYork == "America/New_York"

LoadedMulti ==
    [p \in MultiProps |->
        IF p \in {"ATTENDEE", "CATEGORIES"} THEN 2
        ELSE IF p \in {"ORGANIZER", "URL", "LOCATION", "ATTACH"} THEN 1
        ELSE 0]

\* a parsed VEVENT; extras chooses the fields other than the four timestamps
MkEvent(id, ds, de, rid, stamp, extras) ==
    IF extras = "loaded"
    THEN [UID |-> SrcUid(id), DTSTART |-> ds, DTEND |-> de,
          DURATION |-> NoStr, RRULE |-> "FREQ=WEEKLY", RDATE |-> NoStr,
          EXDATE |-> "19721001", RECURRENCE_ID |-> rid, DTSTAMP |-> stamp,
          SUMMARY |-> "Dentist", DESCRIPTION |-> "Bring the forms",
          multi |-> LoadedMulti, SEQUENCE |-> [has |-> TRUE, n |-> 3],
          TRANSP |-> "TRANSPARENT"]
    ELSE IF extras = "social"
    THEN [UID |-> SrcUid(id), DTSTART |-> ds, DTEND |-> de,
          DURATION |-> NoStr, RRULE |-> NoStr, RDATE |-> NoStr,
          EXDATE |-> NoStr, RECURRENCE_ID |-> rid, DTSTAMP |-> stamp,
          SUMMARY |-> "Dinner", DESCRIPTION |-> "With the neighbours",
          multi |-> LoadedMulti, SEQUENCE |-> [has |-> TRUE, n |-> 1],
          TRANSP |-> "OPAQUE"]
    ELSE [UID |-> SrcUid(id), DTSTART |-> ds, DTEND |-> de,
          DURATION |-> NoStr, RRULE |-> NoStr, RDATE |-> NoStr,
          EXDATE |-> NoStr, RECURRENCE_ID |-> rid, DTSTAMP |-> stamp,
          SUMMARY |-> "Trip", DESCRIPTION |-> NoStr,
          multi |-> BlankMulti, SEQUENCE |-> NoSeq, TRANSP |-> NoStr]

Zulu(w) == Prop(PyAware(w, 0), "")
Tokyo(w) == Prop(PyAware(w, JstOffset), TokyoId)
Floating(w) == Prop(PyNaive(w), "")
DateProp(d) == Prop(PyDate(d), "")

StartVals ==
    { Absent,
      DateProp(B),
      Floating(At(B, 22, 0, 0)),
      Zulu(At(B, 14, 59, 59)),
      Zulu(At(B, 15, 0, 0)),
      Prop(PyAware(At(B, 16, 30, 0), 3600), Paris),
      Tokyo(At(B, 23, 59, 58)),
      Prop(PyAware(At(B, 20, 0, 0), 0 - 18000), NewYork) }

EndVals ==
    { Absent,
      DateProp(B),
      DateProp(B + 1),
      Floating(At(B, 23, 59, 59)),
      Floating(At(B + 1, 0, 0, 0)),
      Zulu(At(B, 14, 59, 59)),
      Zulu(At(B, 15, 0, 0)),
      Tokyo(At(B + 1, 8, 0, 0)),
      Prop(PyAware(At(B, 15, 30, 0), 3600), Paris) }

RidVals == { Absent, DateProp(B), Zulu(At(B, 15, 0, 0)) }
StampVals == { Absent, Zulu(At(B - 5, 3, 4, 5)), Floating(At(B - 5, 3, 4, 5)) }

\* every combination, for calendars of one event
BigPool ==
    { MkEvent("u0", ds, de, rid, stamp, extras) :
        ds \in StartVals, de \in EndVals, rid \in RidVals, stamp \in StampVals,
        extras \in {"bare", "loaded"} }

\* events for the longer calendars of normal mode
SmallPool ==
    { MkEvent("u1", Zulu(At(B, 13, 0, 0)), Zulu(At(B, 14, 59, 59)), Absent,
              Zulu(At(B - 5, 3, 4, 5)), "bare"),
      MkEvent("u2", Prop(PyAware(At(B, 14, 0, 0), 3600), Paris), Tokyo(At(B, 23, 59, 59)), Absent,
              Zulu(At(B - 9, 0, 0, 0)), "social"),
      MkEvent("u3", DateProp(B), Absent, Absent, Absent, "loaded"),
      MkEvent("u4", Floating(At(B, 22, 0, 0)), Floating(At(B + 1, 8, 0, 0)), Absent,
              Zulu(At(B - 5, 3, 4, 5)), "loaded"),
      MkEvent("u5", DateProp(B - 3), DateProp(B - 2), Absent, Absent, "bare"),
      MkEvent("u6", Absent, Absent, Absent, Absent, "loaded") }

\* events for the calendars of merge mode
StayPool ==
    { MkEvent("s1", DateProp(B - 3), DateProp(B - 1), Absent, Absent, "bare"),
      MkEvent("s2", DateProp(B - 1), DateProp(B + 1), Absent, Absent, "bare"),
      MkEvent("s3", DateProp(B + 1), DateProp(B + 4), Absent, Absent, "loaded"),
      MkEvent("s4", DateProp(B + 3), DateProp(B + 5), Absent, Absent, "bare"),
      MkEvent("s5", DateProp(B + 6), DateProp(B + 7), Absent, Absent, "bare"),
      MkEvent("s6", Zulu(At(B + 1, 15, 0, 0)), Floating(At(B + 3, 10, 0, 0)), Absent,
              Absent, "loaded"),
      MkEvent("s7", DateProp(B + 8), Absent, Absent, Absent, "loaded"),
      MkEvent("s8", Tokyo(At(B + 8, 10, 0, 0)), Tokyo(At(B + 8, 12, 0, 0)), Absent,
              Absent, "bare") }

SeqsUpTo(S, n) == UNION { [1..m -> S] : m \in 0..n }

\* the current instant: the cutoff falls on the last second of day B in
\* Tokyo, or one second later
Nows == { PyAware(At(B, 23, 59, 59) + YearSecs, JstOffset),
          PyAware(At(B + 1, 0, 0, 0) + YearSecs, JstOffset) }

SourceProps ==
    [key \in CalKeys |->
        IF key = "PRODID" THEN "-//Vendor//Calendar 1.0//EN"
        ELSE IF key = "CALSCALE" THEN NoStr
        ELSE IF key = "X-WR-CALNAME" THEN "Family"
        ELSE IF key = "X-WR-TIMEZONE" THEN Paris
        ELSE "PT1H"]

Metas == { <<SourceProps, << Paris >> >>,
           <<[SourceProps EXCEPT !["X-WR-CALNAME"] = NoStr], << TokyoId, Paris >> >> }

Init ==
    /\ \E m \in Metas : calprops = m[1] /\ vtimezones = m[2]
    /\ clear_location \in BOOLEAN
    /\ now_jst \in Nows
    /\ \/ /\ merge_adjacent_stays = FALSE
          /\ events \in SeqsUpTo(SmallPool, MaxEvents) \cup { << e >> : e \in BigPool }
       \/ /\ merge_adjacent_stays = TRUE
          /\ events \in SeqsUpTo(StayPool, MaxStays)
    /\ src = events
    /\ pc = "start"
    /\ i = 1
    /\ to_remove = << >>
    /\ intervals = << >>
    /\ merged = << >>

(***************************************************************************)
(* The steps of anonymize_calendar.                                        *)
(***************************************************************************)
\* lines 210-217
Prepare ==
    /\ pc = "start"
    /\ calprops' = _normalize_calendar_metadata(calprops)
    /\ vtimezones' = _ensure_vtimezone_jst(vtimezones)
    /\ i' = 1
    /\ pc' = IF merge_adjacent_stays
             THEN (IF events = << >> THEN "check" ELSE "collect")
             ELSE (IF events = << >> THEN "remove" ELSE "scrub")
    /\ UNCHANGED <<events, clear_location, merge_adjacent_stays, now_jst,
                   to_remove, intervals, merged, src>>

Others == <<calprops, vtimezones, clear_location, merge_adjacent_stays, now_jst, src>>

\* lines 304-312
Scrub ==
    /\ pc = "scrub"
    /\ events' = [events EXCEPT ![i] = ScrubEvent(@, clear_location)]
    /\ pc' = "tz"
    /\ UNCHANGED <<Others, i, to_remove, intervals, merged>>

\* lines 315-332
Normalize ==
    /\ pc = "tz"
    /\ events' = [events EXCEPT ![i] = NormalizeTimestamps(@)]
    /\ pc' = "collapse"
    /\ UNCHANGED <<Others, i, to_remove, intervals, merged>>

\* lines 335-360
Collapse ==
    /\ pc = "collapse"
    /\ events' = [events EXCEPT ![i] = CollapseOvernight(@)]
    /\ pc' = "uid"
    /\ UNCHANGED <<Others, i, to_remove, intervals, merged>>

\* lines 363-366
AssignUid ==
    /\ pc = "uid"
    /\ events' = [events EXCEPT ![i] = ResetSequenceAndUid(@)]
    /\ pc' = "mark"
    /\ UNCHANGED <<Others, i, to_remove, intervals, merged>>

\* lines 369-378, and the loop's advance
MarkOld ==
    /\ pc = "mark"
    /\ to_remove' = IF IsOld(events[i]) THEN Append(to_remove, events[i]) ELSE to_remove
    /\ i' = i + 1
    /\ pc' = IF i < Len(events) THEN "scrub" ELSE "remove"
    /\ UNCHANGED <<Others, events, intervals, merged>>

\* lines 381-387
RemoveOld ==
    /\ pc = "remove"
    /\ events' = RemoveAllOld(events, to_remove)
    /\ pc' = "done"
    /\ UNCHANGED <<Others, i, to_remove, intervals, merged>>

\* lines 232-240
Collect ==
    /\ pc = "collect"
    /\ intervals' = intervals \o StayOf(events[i])
    /\ i' = i + 1
    /\ pc' = IF i < Len(events) THEN "collect" ELSE "check"
    /\ UNCHANGED <<Others, events, to_remove, merged>>

\* line 242, taken: line 244
Sort ==
    /\ pc = "check"
    /\ intervals # << >>
    /\ intervals' = SortIntervals(intervals)
    /\ merged' = << >>
    /\ i' = 1
    /\ pc' = "merge"
    /\ UNCHANGED <<Others, events, to_remove>>

\* line 242, not taken: line 292
ReturnUnmerged ==
    /\ pc = "check"
    /\ intervals = << >>
    /\ pc' = "done"
    /\ UNCHANGED <<Others, events, i, to_remove, intervals, merged>>

\* lines 246-255
Merge ==
    /\ pc = "merge"
    /\ merged' = MergeOne(merged, intervals[i])
    /\ i' = i + 1
    /\ pc' = IF i < Len(intervals) THEN "merge" ELSE "replace"
    /\ UNCHANGED <<Others, events, to_remove, intervals>>

\* lines 258-267
RemoveEvents ==
    /\ pc = "replace"
    /\ events' = << >>
    /\ i' = 1
    /\ pc' = "synth"
    /\ UNCHANGED <<Others, to_remove, intervals, merged>>

\* lines 270-292
Synthesize ==
    /\ pc = "synth"
    /\ events' = IF IsOldStay(merged[i]) THEN events ELSE Append(events, SynthEvent(merged[i]))
    /\ i' = i + 1
    /\ pc' = IF i < Len(merged) THEN "synth" ELSE "done"
    /\ UNCHANGED <<Others, to_remove, intervals, merged>>

Next ==
    \/ Prepare
    \/ Scrub
    \/ Normalize
    \/ Collapse
    \/ AssignUid
    \/ MarkOld
    \/ RemoveOld
    \/ Collect
    \/ Sort
    \/ ReturnUnmerged
    \/ Merge
    \/ RemoveEvents
    \/ Synthesize

Spec == Init /\ [][Next]_vars

(***************************************************************************)
(* What the claims speak of, stated apart from the operators above.        *)
(***************************************************************************)
Done == pc = "done"
MergeMode == merge_adjacent_stays
NormalMode == ~merge_adjacent_stays

\* the calendar day, in Tokyo, of a present date or datetime value
TokyoDay(x) ==
    IF x.k = "date" THEN x.v
    ELSE IF x.aware THEN (x.v - x.off + 32400) \div 86400
    ELSE x.v \div 86400

\* an event has a valid stay interval: both bounds present, end day later
HasStay(e) ==
    /\ e.DTSTART.k # "absent"
    /\ e.DTEND.k # "absent"
    /\ TokyoDay(e.DTEND) > TokyoDay(e.DTSTART)

StayDays(e) == { d \in TokyoDay(e.DTSTART)..(TokyoDay(e.DTEND) - 1) : HasStay(e) }
DaysOfEvents(list) == UNION { StayDays(list[n]) : n \in 1..Len(list) }
Stays(list) == { n \in 1..Len(list) : HasStay(list[n]) }
IsSensitiveFree(e) == \A p \in SensitiveSet : e.multi[p] = 0

\* C1: after anonymize_calendar returns, in either mode, no event of the output
\* holds a sensitive property, nor LOCATION when location clearing is enabled.
C1_NoSensitiveInOutput ==
    Done => \A n \in 1..Len(events) :
                /\ IsSensitiveFree(events[n])
                /\ clear_location => events[n].multi["LOCATION"] = 0

\* C2: in merge mode, when no source event yields a valid stay interval the
\* output holds no event, and in general no source event survives: every
\* output event is a synthesized one.
C2_MergeReplacesAllEvents ==
    (Done /\ MergeMode) =>
        /\ Stays(src) = {} => events = << >>
        /\ \A n \in 1..Len(events) : \A m \in 1..Len(src) : events[n] # src[m]

\* C3: in merge mode the output intervals are ascending and strictly apart
\* (a later one starts after an earlier one ends), as are the merged
\* intervals, and they are no more than the valid input intervals.
C3_MergedApart ==
    /\ (Done /\ MergeMode) =>
          /\ \A n, m \in Stays(events) :
                n < m => TokyoDay(events[m].DTSTART) > TokyoDay(events[n].DTEND)
          /\ Cardinality(Stays(events)) <= Cardinality(Stays(src))
    /\ (MergeMode /\ pc \in {"replace", "synth", "done"}) =>
          /\ \A n, m \in 1..Len(merged) : n < m => merged[m][1] > merged[n][2]
          /\ Len(merged) <= Cardinality(Stays(src))

\* C3's case: three valid stays, two of them merged, two output intervals
C3_Witness ==
    /\ Done /\ MergeMode
    /\ Cardinality(Stays(src)) = 3
    /\ Len(events) = 2
    /\ \E n, m \in Stays(src) : TokyoDay(src[m].DTSTART) = TokyoDay(src[n].DTEND)

\* the end of the maximal run of covered days that holds day d
BlockEnd(days, d) == CHOOSE x \in (d + 1)..(d + 20) : x \notin days /\ \A y \in d..(x - 1) : y \in days
\* the last second before day e starts in Tokyo is not earlier than the cutoff
LastSecondFresh(e) == e * 86400 - 32400 - 1 >= (now_jst.v - now_jst.off) - 365 * 86400

\* C4 as stated: in merge mode the days covered by the output intervals are
\* the days covered by the valid input intervals.
C4_UnionEqualsInput ==
    (Done /\ MergeMode) => DaysOfEvents(events) = DaysOfEvents(src)

\* C4 as amended: the merged intervals cover exactly the days of the valid
\* input intervals, and the output covers those of them whose block ends
\* with a last second not earlier than the cutoff.
C4_UnionEqualsFreshInput ==
    /\ (MergeMode /\ pc \in {"replace", "synth", "done"}) =>
          UNION { merged[n][1]..(merged[n][2] - 1) : n \in 1..Len(merged) } = DaysOfEvents(src)
    /\ (Done /\ MergeMode) =>
          DaysOfEvents(events) =
              { d \in DaysOfEvents(src) : LastSecondFresh(BlockEnd(DaysOfEvents(src), d)) }

\* C4's case: a merged block was dropped as old, another was kept
C4_Witness ==
    /\ Done /\ MergeMode
    /\ Len(merged) < Len(intervals)
    /\ DaysOfEvents(events) # {}
    /\ DaysOfEvents(events) # DaysOfEvents(src)

(***************************************************************************)
(* Normal mode.                                                            *)
(***************************************************************************)
NowUtc == now_jst.v - now_jst.off
CutoffUtc == NowUtc - 365 * 86400

\* the instant that decides whether an event is old: its end if present,
\* else its start, a date standing for 23:59:59 of that day in Tokyo
HasEffectiveEnd(e) == e.DTEND.k # "absent" \/ e.DTSTART.k # "absent"
EffectiveEndUtc(e) ==
    LET x == IF e.DTEND.k # "absent" THEN e.DTEND ELSE e.DTSTART
    IN  IF x.k = "date" THEN x.v * 86400 + 86399 - 32400
        ELSE IF x.aware THEN x.v - x.off
        ELSE x.v - 32400
Retained(e) == ~(HasEffectiveEnd(e) /\ EffectiveEndUtc(e) < CutoffUtc)

\* C5: the removal of normal mode drops exactly the normalized events whose
\* effective end is strictly earlier than the cutoff (equal to it is kept,
\* no start and no end is kept) and keeps the others in their order.
C5_RemovesExactlyOld ==
    [][pc = "remove" => events' = SelectSeq(events, Retained)]_vars

\* C5's case: one event was removed, and one whose effective end is the
\* cutoff itself was kept
C5_Witness ==
    /\ Done /\ NormalMode
    /\ Len(src) = 2 /\ Len(events) = 1 /\ to_remove # << >>
    /\ HasEffectiveEnd(events[1]) /\ EffectiveEndUtc(events[1]) = CutoffUtc

\* two values of a timing field are the same value: both absent, the same
\* date, the same naive reading, or the same instant
SameValue(x, y) ==
    /\ x.k = y.k
    /\ x.k = "date" => x.v = y.v
    /\ x.k = "dt" => x.aware = y.aware /\ x.v - x.off = y.v - y.off
SameTiming(e, f) ==
    /\ SameValue(e.DTSTART, f.DTSTART)
    /\ SameValue(e.DTEND, f.DTEND)
    /\ SameValue(e.RECURRENCE_ID, f.RECURRENCE_ID)
    /\ e.DURATION = f.DURATION /\ e.RRULE = f.RRULE
    /\ e.RDATE = f.RDATE /\ e.EXDATE = f.EXDATE
SeqRange(list) == { list[n] : n \in 1..Len(list) }

\* C6: two events with the same seven timing fields get the same identifier,
\* whatever their other fields and whichever document (source or output)
\* holds them.
C6_UidFromTimingOnly ==
    \A e, f \in SeqRange(events) \cup SeqRange(src) :
        SameTiming(e, f) =>
            /\ make_anonymized_uid(e) = make_anonymized_uid(f)
            /\ (e.UID.kind = "anon" /\ f.UID.kind = "anon") => e.UID = f.UID

\* C6's case: two output events with the same timing fields and identifier
\* that differ in creation timestamp and in the location they keep
C6_Witness ==
    /\ Done /\ NormalMode /\ Len(events) = 2
    /\ SameTiming(events[1], events[2])
    /\ events[1].UID.kind = "anon" /\ events[1].UID = events[2].UID
    /\ events[1].DTSTAMP # events[2].DTSTAMP
    /\ events[1].multi["LOCATION"] # events[2].multi["LOCATION"]

TokyoTagged(x) == x.k = "dt" /\ x.aware /\ x.off = 32400 /\ x.tzid = "Asia/Tokyo"
\* x is what the conversion makes of the source value y
ConvertedFrom(x, y) ==
    IF y.k = "absent" THEN x.k = "absent"
    ELSE IF y.k = "date" THEN x.k = "date" /\ x.v = y.v
    ELSE IF ~y.aware THEN TokyoTagged(x) /\ x.v = y.v
    ELSE TokyoTagged(x) /\ x.v - x.off = y.v - y.off
\* x is the day of the source datetime y, after day-span collapsing
CollapsedFrom(x, y) == y.k = "dt" /\ x.k = "date" /\ x.v = TokyoDay(y)
\* the timestamps of event n have been through the conversion
Converted(n) ==
    /\ NormalMode
    /\ \/ n < i
       \/ n = i /\ pc \in {"collapse", "uid", "mark"}
       \/ pc \in {"remove", "done"}

\* C7: once converted, each of DTSTART, DTEND, RECURRENCE-ID and DTSTAMP is
\* absent, a date, or a datetime in Asia/Tokyo tagged with that zone; a naive
\* source datetime keeps its reading, an aware one its instant, a date is
\* unchanged (DTSTART and DTEND may later be collapsed to their days).
C7_TimestampsInTokyo ==
    \A n \in 1..Len(events) : Converted(n) =>
        /\ \A x \in {events[n].DTSTART, events[n].DTEND,
                     events[n].RECURRENCE_ID, events[n].DTSTAMP} :
                x.k \in {"absent", "date"} \/ TokyoTagged(x)
        /\ pc # "done" =>
              /\ ConvertedFrom(events[n].RECURRENCE_ID, src[n].RECURRENCE_ID)
              /\ ConvertedFrom(events[n].DTSTAMP, src[n].DTSTAMP)
              /\ \/ /\ ConvertedFrom(events[n].DTSTART, src[n].DTSTART)
                    /\ ConvertedFrom(events[n].DTEND, src[n].DTEND)
                 \/ /\ ~(n = i /\ pc = "collapse")
                    /\ CollapsedFrom(events[n].DTSTART, src[n].DTSTART)
                    /\ CollapsedFrom(events[n].DTEND, src[n].DTEND)

\* C7's case: a naive start, an end in another zone, a date and a naive
\* creation timestamp have just been converted
C7_Witness ==
    /\ pc = "collapse" /\ NormalMode
    /\ src[i].DTSTART.k = "dt" /\ ~src[i].DTSTART.aware
    /\ src[i].DTEND.k = "dt" /\ src[i].DTEND.aware /\ src[i].DTEND.off = 3600
    /\ src[i].RECURRENCE_ID.k = "date"
    /\ src[i].DTSTAMP.k = "dt" /\ ~src[i].DTSTAMP.aware
    /\ TokyoTagged(events[i].DTSTART) /\ TokyoTagged(events[i].DTEND)

BareDate(d) == [k |-> "date", v |-> d, aware |-> FALSE, off |-> 0, tzid |-> "", wrapped |-> FALSE]
SpansDays(e) ==
    /\ e.DTSTART.k = "dt" /\ e.DTEND.k = "dt"
    /\ TokyoDay(e.DTEND) > TokyoDay(e.DTSTART)

\* C8: the collapsing step turns start and end into their bare Tokyo days and
\* sets TRANSP to OPAQUE exactly when both are datetimes and the end's day is
\* later than the start's; otherwise it leaves the event as it was.
C8_CollapseExactlyOvernight ==
    [][pc = "collapse" =>
         events' = [events EXCEPT ![i] =
                       IF SpansDays(@)
                       THEN [@ EXCEPT !.DTSTART = BareDate(TokyoDay(events[i].DTSTART)),
                                      !.DTEND = BareDate(TokyoDay(events[i].DTEND)),
                                      !.TRANSP = "OPAQUE"]
                       ELSE @]]_vars

\* C8's case: start and end on one UTC day but on two days in Tokyo, collapsed
C8_Witness ==
    /\ pc = "uid" /\ NormalMode
    /\ src[i].DTSTART.k = "dt" /\ src[i].DTEND.k = "dt"
    /\ src[i].DTSTART.off = 0 /\ src[i].DTEND.off = 0
    /\ src[i].DTSTART.aware /\ src[i].DTEND.aware
    /\ src[i].DTSTART.v \div 86400 = src[i].DTEND.v \div 86400
    /\ events[i].DTSTART = BareDate(BaseDay) /\ events[i].DTEND = BareDate(BaseDay + 1)
    /\ events[i].TRANSP = "OPAQUE"

\* event n has been through the whole body of the loop
Normalized(n) ==
    /\ NormalMode
    /\ \/ n < i
       \/ n = i /\ pc = "mark"
       \/ pc \in {"remove", "done"}

\* C9: normalizing a normalized event again, under the same configuration,
\* changes none of its fields.
C9_NormalizeIdempotent ==
    \A n \in 1..Len(events) : Normalized(n) =>
        NormalizeEvent(events[n], clear_location) = events[n]

\* C9's case: an event that had sensitive properties, a sequence number and
\* a start in UTC, and was collapsed, now normalized
C9_Witness ==
    /\ pc = "mark" /\ NormalMode
    /\ src[i].multi["ATTENDEE"] = 2 /\ src[i].SEQUENCE.has
    /\ src[i].DTSTART.k = "dt" /\ src[i].DTSTART.off = 0 /\ src[i].DTSTART.aware
    /\ src[i].DTEND.k = "dt" /\ src[i].DTEND.off = 32400
    /\ events[i].DTSTART.k = "date" /\ events[i].DTEND.k = "date"
    /\ events[i].UID.kind = "anon"

TimePart(x) ==
    IF x.k = "absent" THEN [tag |-> "empty", n |-> 0, s |-> ""]
    ELSE IF x.k = "date" THEN [tag |-> "DATE", n |-> x.v, s |-> ""]
    ELSE [tag |-> "Z", n |-> x.v - x.off, s |-> ""]
TextPart(s) ==
    IF s = "<none>" THEN [tag |-> "empty", n |-> 0, s |-> ""]
    ELSE [tag |-> "str", n |-> 0, s |-> s]
\* the identifier of the timing fields an event holds now
UidOfFields(e) ==
    [kind |-> "anon", id |-> "",
     basis |-> << TimePart(e.DTSTART), TimePart(e.DTEND), TextPart(e.DURATION),
                  TextPart(e.RRULE), TextPart(e.RDATE), TextPart(e.EXDATE),
                  TimePart(e.RECURRENCE_ID) >>]
IsSynthesized(e) == MergeMode /\ e.UID.kind = "anon"

\* C10: from the step that assigns it on, the UID of an event of normal mode
\* is the identifier of the timing fields the event holds; a synthesized
\* event's UID is the identifier of its two date bounds, its duration and
\* recurrence fields being absent.
C10_UidOfFinalFields ==
    \A n \in 1..Len(events) :
        /\ Normalized(n) => events[n].UID = UidOfFields(events[n])
        /\ IsSynthesized(events[n]) =>
              /\ events[n].UID = UidOfFields(events[n])
              /\ events[n].DTSTART.k = "date" /\ events[n].DTEND.k = "date"
              /\ events[n].RECURRENCE_ID.k = "absent"
              /\ {events[n].DURATION, events[n].RRULE, events[n].RDATE,
                  events[n].EXDATE} = {"<none>"}

\* C10's case: a synthesized event in the output of merge mode
C10_Witness ==
    /\ Done /\ MergeMode
    /\ Len(events) > 0 /\ IsSynthesized(events[1])
    /\ events[1].UID.basis[2].tag = "DATE"

\* C10's other case: an event of normal mode that was collapsed after the
\* conversion and carries the identifier of its two days
C10_WitnessNormal ==
    /\ Done /\ NormalMode /\ Len(events) = 1 /\ Len(src) = 1
    /\ src[1].DTSTART.k = "dt" /\ events[1].DTSTART.k = "date"
    /\ events[1].UID.basis[1].tag = "DATE"
====
